---- MODULE Spec2Model ----
(***************************************************************************)
(* A model of registration-updater.py: the FlashbotsValidatorTracker loop  *)
(* that polls a source relay, detects changes against the snapshot held in *)
(* memory, forwards the reshaped dataset to a target relay and commits the *)
(* snapshot after a successful POST.                                       *)
(***************************************************************************)
EXTENDS Integers, Sequences, FiniteSets, TLC

(***************************************************************************)
(* JSON values as Python holds them after response.json(): a string, null  *)
(* or an object.  An object keeps its keys in insertion order (a Python    *)
(* dict), so it is a sequence of <<key, value>> pairs with distinct keys.  *)
(***************************************************************************)
Str(s) == [t |-> "str", s |-> s]
Null == [t |-> "null"]
Obj(kv) == [t |-> "obj", kv |-> kv]

\* Longest dataset, in records, of the inputs of the pure-function checks.
MaxLen == 2

\* Python's None and a present value (self.validators is None or a list).
None == [isNone |-> TRUE]
Some(d) == [isNone |-> FALSE, v |-> d]

\* The keys of an object and the value stored under a key it has.
Keys(o) == {o.kv[i][1] : i \in 1..Len(o.kv)}
Value(o, k) == o.kv[CHOOSE i \in 1..Len(o.kv) : o.kv[i][1] = k][2]

\* Python's `k in v`: key membership for a dict, substring test for a str
\* (over the strings of this model no key is a proper substring of a value,
\* so the test is equality), TypeError for None.
InRaises(v) == v.t = "null"
In(k, v) ==
  CASE v.t = "obj" -> k \in Keys(v)
    [] v.t = "str" -> v.s = k
    [] OTHER -> FALSE

\* Python's `v[k]`: the value for a dict that has the key; KeyError for a
\* dict that lacks it, TypeError for a str (string indices must be integers)
\* and for None.
SubscriptRaises(v, k) == ~(v.t = "obj" /\ k \in Keys(v))
Subscript(v, k) == Value(v, k)

(***************************************************************************)
(* json.dumps(v, sort_keys=True), as the sequence of the tokens it writes. *)
(***************************************************************************)
\* The keys of the model in the order Python sorts them.
KeyOrder ==
  <<"entry", "fee_recipient", "message", "pubkey", "signature", "slot">>

\* Faulty variant: the pairs in the order the object lists them, as
\* json.dumps writes them without sort_keys.
PairsAsWritten(o, i) == o.kv

RECURSIVE SortedPairs(_, _)
SortedPairs(o, i) ==
  IF i > Len(KeyOrder) THEN <<>>
  ELSE (IF KeyOrder[i] \in Keys(o)
          THEN << <<KeyOrder[i], Value(o, KeyOrder[i])>> >>
          ELSE <<>>) \o SortedPairs(o, i + 1)

RECURSIVE DumpsSorted(_)
RECURSIVE DumpsPairs(_, _)
DumpsPairs(ps, i) ==
  IF i > Len(ps) THEN <<>>
  ELSE (IF i > 1 THEN <<",">> ELSE <<>>)
       \o <<"\"", ps[i][1], "\"", ":">> \o DumpsSorted(ps[i][2])
       \o DumpsPairs(ps, i + 1)

DumpsSorted(v) ==
  CASE v.t = "null" -> <<"null">>
    [] v.t = "str" -> <<"\"", v.s, "\"">>
    [] OTHER -> <<"{">> \o DumpsPairs(SortedPairs(v, 1), 1) \o <<"}">>

(***************************************************************************)
(* transform_data_format                                                   *)
(***************************************************************************)
\* The test of line 93 raises when a membership test or a subscript of it
\* does, evaluated left to right with the short circuit of `and`.
ItemTestRaises(item) ==
  \/ InRaises(item)
  \/ /\ In("entry", item)
     /\ \/ SubscriptRaises(item, "entry")
        \/ InRaises(Subscript(item, "entry"))

ItemTest(item) ==
  /\ In("entry", item)
  /\ In("message", Subscript(item, "entry"))
  /\ In("signature", Subscript(item, "entry"))

\* Faulty variant: the signature is copied from entry.message.
TransformedItemMessageTwice(item) ==
  Obj(<< <<"message", Subscript(Subscript(item, "entry"), "message")>>,
         <<"signature", Subscript(Subscript(item, "entry"), "message")>> >>)

\* The forward record of lines 95-98; the dict literal lists message first.
TransformedItem(item) ==
  Obj(<< <<"message", Subscript(Subscript(item, "entry"), "message")>>,
         <<"signature", Subscript(Subscript(item, "entry"), "signature")>> >>)

\* The loop of lines 92-101 from item i on, with the records collected so
\* far: the exception of an item abandons the loop.
RECURSIVE TransformLoop(_, _, _)
TransformLoop(data, i, transformed_data) ==
  IF i > Len(data) THEN [raised |-> FALSE, out |-> transformed_data]
  ELSE IF ItemTestRaises(data[i]) THEN [raised |-> TRUE, out |-> transformed_data]
  ELSE IF ItemTest(data[i])
    THEN TransformLoop(data, i + 1, Append(transformed_data, TransformedItem(data[i])))
    ELSE TransformLoop(data, i + 1, transformed_data)

\* Faulty variant: on an exception the records collected so far are returned.
transform_keep_collected(data) == TransformLoop(data, 1, <<>>).out

\* The except branch of lines 108-111 returns the original data.
transform_data_format(data) ==
  LET r == TransformLoop(data, 1, <<>>)
  IN  IF r.raised THEN data ELSE r.out

(***************************************************************************)
(* detect_changes                                                          *)
(***************************************************************************)
\* item["entry"]["message"]["pubkey"] of lines 153-154 raises KeyError or
\* TypeError when a level is missing or is no dict, and TypeError when the
\* pubkey is a dict (unhashable as a dict key).
PubkeyRaises(item) ==
  \/ SubscriptRaises(item, "entry")
  \/ SubscriptRaises(Subscript(item, "entry"), "message")
  \/ SubscriptRaises(Subscript(Subscript(item, "entry"), "message"), "pubkey")
  \/ Subscript(Subscript(Subscript(item, "entry"), "message"), "pubkey").t = "obj"

Pubkey(item) == Subscript(Subscript(Subscript(item, "entry"), "message"), "pubkey")

\* The dict comprehension {pubkey: item for item in d}: a later item replaces
\* an earlier one with the same pubkey.
KeyedRaises(d) == \E i \in 1..Len(d) : PubkeyRaises(d[i])
Keyed(d) ==
  [k \in {Pubkey(d[i]) : i \in 1..Len(d)} |->
     d[CHOOSE i \in 1..Len(d) :
         /\ Pubkey(d[i]) = k
         /\ \A j \in 1..Len(d) : Pubkey(d[j]) = k => j <= i]]

\* Faulty variant: the records are compared as they are, without sort_keys.
DiffersUnsorted(old_item, new_item) == old_item # new_item

\* The comparison of line 164.
Differs(old_item, new_item) == DumpsSorted(old_item) # DumpsSorted(new_item)

\* Faulty variant: the records are compared position by position instead of
\* pubkey by pubkey.
detect_changes_by_position(old_data, new_data) ==
  IF KeyedRaises(old_data) \/ KeyedRaises(new_data)
  THEN [raised |-> TRUE, added |-> {}, removed |-> {}, updated |-> {}]
  ELSE
    LET common == {i \in 1..Len(old_data) : i <= Len(new_data)}
    IN  [raised |-> FALSE,
         added |-> {new_data[i] : i \in (Len(old_data) + 1)..Len(new_data)},
         removed |-> {old_data[i] : i \in (Len(new_data) + 1)..Len(old_data)},
         updated |-> {new_data[i] :
                        i \in {j \in common : Differs(old_data[j], new_data[j])}}]

\* The three lists are built by iterating Python sets, whose order is not
\* fixed by the program; the loop uses only their emptiness and length, so
\* they are sets here.
detect_changes(old_data, new_data) ==
  IF KeyedRaises(old_data) \/ KeyedRaises(new_data)
  THEN [raised |-> TRUE, added |-> {}, removed |-> {}, updated |-> {}]
  ELSE
    LET old_keys == Keyed(old_data)
        new_keys == Keyed(new_data)
        added_keys == DOMAIN new_keys \ DOMAIN old_keys
        removed_keys == DOMAIN old_keys \ DOMAIN new_keys
        common_keys == DOMAIN old_keys \cap DOMAIN new_keys
        updated == {k \in common_keys : Differs(old_keys[k], new_keys[k])}
    IN  [raised |-> FALSE,
         added |-> {new_keys[k] : k \in added_keys},
         removed |-> {old_keys[k] : k \in removed_keys},
         updated |-> {new_keys[k] : k \in updated}]

(***************************************************************************)
(* The records and datasets of the model                                   *)
(***************************************************************************)
\* A registration in the GET format of line 88, and the same registration
\* with the keys of every object in another order.
Registration(pubkey, fee, sig) ==
  Obj(<< <<"slot", Str("1")>>,
         <<"entry", Obj(<< <<"message", Obj(<< <<"fee_recipient", Str(fee)>>,
                                               <<"pubkey", Str(pubkey)>> >>)>>,
                           <<"signature", Str(sig)>> >>)>> >>)
Reordered(pubkey, fee, sig) ==
  Obj(<< <<"entry", Obj(<< <<"signature", Str(sig)>>,
                           <<"message", Obj(<< <<"pubkey", Str(pubkey)>>,
                                               <<"fee_recipient", Str(fee)>> >>)>> >>)>>,
         <<"slot", Str("1")>> >>)

A1 == Registration("pkA", "f1", "sigA")
A2 == Registration("pkA", "f2", "sigA")
A1r == Reordered("pkA", "f1", "sigA")
B1 == Registration("pkB", "f1", "sigB")
\* Malformed records: no entry; an entry without signature; an entry that is
\* null; an element that is null, not an object.
NoEntry == Obj(<< <<"slot", Str("1")>> >>)
NoSig ==
  Obj(<< <<"slot", Str("1")>>,
         <<"entry", Obj(<< <<"message", Obj(<< <<"fee_recipient", Str("f1")>>,
                                               <<"pubkey", Str("pkC")>> >>)>> >>)>> >>)
NullEntry == Obj(<< <<"slot", Str("1")>>, <<"entry", Null>> >>)

Items == {A1, A2, A1r, B1, NoEntry, NoSig, NullEntry, Null}

RECURSIVE SeqsUpTo(_, _)
SeqsUpTo(S, n) ==
  IF n = 0 THEN {<<>>}
  ELSE LET shorter == SeqsUpTo(S, n - 1)
       IN  shorter \cup {Append(d, x) : d \in {e \in shorter : Len(e) = n - 1}, x \in S}

\* The inputs of the pure-function checks: every dataset of at most MaxLen items.
Datasets == SeqsUpTo(Items, MaxLen)

\* The datasets the source relay serves in the loop.
Feed ==
  { <<>>, <<A1>>, <<A1, B1>>, <<B1, A1>>, <<A2, B1>>, <<A1r, B1>>, <<A1, A2>>,
    <<A2, A1>>, <<A1, NoEntry>>, <<NoEntry, A1>>, <<A1, NoSig>>,
    <<A1, NullEntry>>, <<A1, Null>> }

(***************************************************************************)
(* The HTTP collaborator: what requests.get and requests.post can return   *)
(***************************************************************************)
\* A transport failure raises; otherwise a status and, for a GET, the body
\* as response.json() decodes it (None: the body is no JSON).
GetResponses ==
  {[raised |-> TRUE, status |-> 0, json |-> None]}
  \cup {[raised |-> FALSE, status |-> s, json |-> j] :
          s \in {200, 204, 404, 500}, j \in {None} \cup {Some(d) : d \in Feed}}

PostResponses ==
  {[raised |-> TRUE, status |-> 0]}
  \cup {[raised |-> FALSE, status |-> s] : s \in {200, 201, 202, 204, 404, 500}}

\* --interval is an int; time.sleep raises ValueError for a negative one.
DefaultInterval == 6
Intervals == {DefaultInterval, -1}

(***************************************************************************)
(* State                                                                   *)
(***************************************************************************)
VARIABLES
  pc,           \* where run() is: tick, fetched, post, posted, sleep, stopped
  interval,     \* self.interval
  validators,   \* self.validators: None or the snapshot
  data,         \* the dataset decoded in this tick (line 40)
  changes,      \* the result of detect_changes in this tick
  payload,      \* the body of this tick's POST (transformed_data)
  post_success, \* the value post_to_target returned
  get_response, \* what requests.get returned in this tick
  post_response,\* what requests.post returned in this tick
  exit_code,    \* the exit status of the process once stopped
  tick_log,     \* history: the steps this tick has taken, in order
  tick_start,   \* history: self.validators when this tick began
  last_ok,      \* history: the dataset of the latest POST that succeeded
  prev,         \* history: the previous tick
  interrupted   \* history: a KeyboardInterrupt was raised in the process

vars == <<pc, interval, validators, data, changes, payload, post_success,
          get_response, post_response, exit_code, tick_log, tick_start,
          last_ok, prev, interrupted>>

NoChanges == [raised |-> FALSE, added |-> {}, removed |-> {}, updated |-> {}]
NoTick ==
  [fetched |-> None, steady |-> FALSE, changes |-> NoChanges, posted |-> FALSE,
   payload |-> None, post_success |-> FALSE]

\* __init__ (lines 17-25) and the entry of run().
Init ==
  /\ pc = "tick"
  /\ interval \in Intervals
  /\ validators = None
  /\ data = None
  /\ changes = NoChanges
  /\ payload = None
  /\ post_success = FALSE
  /\ get_response = None
  /\ post_response = None
  /\ exit_code = None
  /\ tick_log = <<>>
  /\ tick_start = None
  /\ last_ok = None
  /\ prev = NoTick
  /\ interrupted = FALSE

(***************************************************************************)
(* fetch_validators, split at its two HTTP calls and at the commit          *)
(***************************************************************************)
\* Faulty variant: any 2xx status is taken for a successful fetch.
FetchAcceptedAny2xx(resp) == resp.status \in 200..299

\* Line 39: the only status the fetch accepts.
FetchAccepted(resp) == resp.status = 200

\* Faulty variant: a failed fetch is not handled in fetch_validators and
\* reaches the handler of run().
FetchFailedUncaught ==
  /\ pc = "tick"
  /\ \E resp \in GetResponses :
       /\ resp.raised \/ resp.status # 200 \/ resp.json = None
       /\ get_response' = Some(resp)
  /\ tick_start' = validators
  /\ tick_log' = <<"GET">>
  /\ pc' = "stopped"
  /\ exit_code' = Some(1)
  /\ UNCHANGED <<interval, validators, data, changes, payload, post_success,
                 post_response, last_ok, prev, interrupted>>

\* Lines 34-41 and 71-78: requests.get raised, or answered another status
\* than 200, or response.json() raised: fetch_validators returns None.
FetchFailed ==
  /\ pc = "tick"
  /\ \E resp \in GetResponses :
       /\ resp.raised \/ ~FetchAccepted(resp) \/ resp.json = None
       /\ get_response' = Some(resp)
  /\ tick_start' = validators
  /\ tick_log' = <<"GET">>
  /\ pc' = "sleep"
  /\ UNCHANGED <<interval, validators, data, changes, payload, post_success,
                 post_response, exit_code, last_ok, prev, interrupted>>

\* Lines 34-41: a 200 whose body decodes.
FetchOk ==
  /\ pc = "tick"
  /\ \E resp \in GetResponses :
       /\ ~resp.raised /\ FetchAccepted(resp) /\ resp.json # None
       /\ get_response' = Some(resp)
       /\ data' = resp.json
  /\ tick_start' = validators
  /\ tick_log' = <<"GET">>
  /\ pc' = "fetched"
  /\ UNCHANGED <<interval, validators, changes, payload, post_success,
                 post_response, exit_code, last_ok, prev, interrupted>>

\* Faulty variant: an empty snapshot counts as no snapshot (`if self.validators:`).
HasSnapshotTruthy(stored) == stored # None /\ stored.v # <<>>

\* Line 44: `self.validators is not None`.
HasSnapshot(stored) == stored # None

\* Faulty variant: every fetch counts as a change.
HasChangesAlways(chg) == TRUE

\* Line 46: the truth value of the three lists.
HasChanges(chg) == chg.added # {} \/ chg.removed # {} \/ chg.updated # {}

\* Faulty variant: an exception of detect_changes is not caught in
\* fetch_validators and reaches the handler of run().
DetectChangesUncaught ==
  /\ pc = "fetched"
  /\ HasSnapshot(validators)
  /\ LET chg == detect_changes(validators.v, data.v)
     IN  /\ changes' = chg
         /\ pc' = IF chg.raised THEN "stopped"
                  ELSE IF HasChanges(chg) THEN "post" ELSE "sleep"
         /\ exit_code' = IF chg.raised THEN Some(1) ELSE exit_code
  /\ tick_log' = Append(tick_log, "DETECT")
  /\ UNCHANGED <<interval, validators, data, payload, post_success, get_response,
                 post_response, tick_start, last_ok, prev, interrupted>>

\* Lines 44-47 and 56-57, with the except of lines 76-78 for an exception
\* raised inside detect_changes.
DetectChanges ==
  /\ pc = "fetched"
  /\ HasSnapshot(validators)
  /\ LET chg == detect_changes(validators.v, data.v)
     IN  /\ changes' = chg
         /\ pc' = IF ~chg.raised /\ HasChanges(chg) THEN "post" ELSE "sleep"
  /\ tick_log' = Append(tick_log, "DETECT")
  /\ UNCHANGED <<interval, validators, data, payload, post_success, get_response,
                 post_response, exit_code, tick_start, last_ok, prev, interrupted>>

\* Faulty variant: the first run posts only a non-empty dataset (`if data:`).
FirstFetchNonEmpty ==
  /\ pc = "fetched"
  /\ ~HasSnapshot(validators)
  /\ pc' = IF data.v # <<>> THEN "post" ELSE "sleep"
  /\ UNCHANGED <<interval, validators, data, changes, payload, post_success,
                 get_response, post_response, exit_code, tick_log, tick_start,
                 last_ok, prev, interrupted>>

\* Lines 58-60: no snapshot yet, post everything.
FirstFetch ==
  /\ pc = "fetched"
  /\ ~HasSnapshot(validators)
  /\ pc' = "post"
  /\ UNCHANGED <<interval, validators, data, changes, payload, post_success,
                 get_response, post_response, exit_code, tick_log, tick_start,
                 last_ok, prev, interrupted>>

\* Faulty variant: only the added and updated records are handed on.
PostArgumentDelta(fetched, chg) ==
  LET Changed(item) == item \in chg.added \cup chg.updated
  IN  SelectSeq(fetched, Changed)

\* Lines 48 and 61: what fetch_validators hands to post_to_target.
PostArgument(fetched, chg) == fetched

\* Faulty variant: any 2xx status is taken for success.
PostAcceptedAny2xx(resp) == resp.status \in 200..299

\* Line 132: the statuses post_to_target takes for success.
PostAccepted(resp) == resp.status \in {200, 201, 202}

\* Faulty variant: a POST that did not succeed is sent a second time in the
\* same tick.
PostToTargetRetries ==
  /\ pc = "post"
  /\ \E resp \in PostResponses :
       /\ post_response' = Some(resp)
       /\ post_success' = (~resp.raised /\ PostAccepted(resp))
       /\ last_ok' = IF ~resp.raised /\ resp.status \in {200, 201, 202}
                       THEN data ELSE last_ok
  /\ payload' = Some(transform_data_format(PostArgument(data.v, changes)))
  /\ tick_log' = tick_log \o <<"TRANSFORM", "POST">>
                  \o (IF post_success' THEN <<>> ELSE <<"POST">>)
  /\ pc' = "posted"
  /\ UNCHANGED <<interval, validators, data, changes, get_response, exit_code,
                 tick_start, prev, interrupted>>

\* post_to_target, lines 113-148: transform, POST, True or False.
PostToTarget ==
  /\ pc = "post"
  /\ \E resp \in PostResponses :
       /\ post_response' = Some(resp)
       /\ post_success' = (~resp.raised /\ PostAccepted(resp))
       /\ last_ok' = IF ~resp.raised /\ resp.status \in {200, 201, 202}
                       THEN data ELSE last_ok
  /\ payload' = Some(transform_data_format(PostArgument(data.v, changes)))
  /\ tick_log' = tick_log \o <<"TRANSFORM", "POST">>
  /\ pc' = "posted"
  /\ UNCHANGED <<interval, validators, data, changes, get_response, exit_code,
                 tick_start, prev, interrupted>>

\* Lines 135-144 with a KeyboardInterrupt raised while lines 140-141 decode
\* and log the error body: the bare `except:` of line 142 catches it, and
\* post_to_target returns False as for any refused POST.
InterruptSwallowed ==
  /\ pc = "post"
  /\ \E resp \in PostResponses :
       /\ ~resp.raised /\ ~PostAccepted(resp)
       /\ post_response' = Some(resp)
  /\ post_success' = FALSE
  /\ payload' = Some(transform_data_format(PostArgument(data.v, changes)))
  /\ tick_log' = tick_log \o <<"TRANSFORM", "POST">>
  /\ interrupted' = TRUE
  /\ pc' = "posted"
  /\ UNCHANGED <<interval, validators, data, changes, get_response, exit_code,
                 tick_start, last_ok, prev>>

\* Faulty variants: the fetched dataset is stored whatever the POST returned; the
\* test of post_success is inverted.
StoredAlways(success, stored, fetched) == fetched
StoredInverted(success, stored, fetched) == IF success THEN stored ELSE fetched

\* Lines 51-55 and 64-68: what the tick stores for a result of the POST.
Stored(success, stored, fetched) == IF success THEN fetched ELSE stored

Commit ==
  /\ pc = "posted"
  /\ validators' = Stored(post_success, validators, data)
  /\ tick_log' = IF post_success THEN Append(tick_log, "COMMIT") ELSE tick_log
  /\ pc' = "sleep"
  /\ UNCHANGED <<interval, data, changes, payload, post_success, get_response,
                 post_response, exit_code, tick_start, last_ok, prev, interrupted>>

(***************************************************************************)
(* run                                                                     *)
(***************************************************************************)
ThisTick ==
  [fetched |-> data, steady |-> tick_start # None, changes |-> changes,
   posted |-> payload # None, payload |-> payload, post_success |-> post_success]

\* Line 180 and back to line 179: the sleep ends and the next tick begins
\* with fresh locals.
Sleep ==
  /\ pc = "sleep"
  /\ interval >= 0
  /\ pc' = "tick"
  /\ prev' = ThisTick
  /\ data' = None
  /\ changes' = NoChanges
  /\ payload' = None
  /\ post_success' = FALSE
  /\ get_response' = None
  /\ post_response' = None
  /\ tick_log' = <<>>
  /\ tick_start' = None
  /\ UNCHANGED <<interval, validators, exit_code, last_ok, interrupted>>

\* Lines 180 and 183-185: time.sleep raises ValueError for a negative
\* interval; run() logs it and exits with status 1.
SleepRaises ==
  /\ pc = "sleep"
  /\ interval < 0
  /\ pc' = "stopped"
  /\ exit_code' = Some(1)
  /\ UNCHANGED <<interval, validators, data, changes, payload, post_success,
                 get_response, post_response, tick_log, tick_start, last_ok, prev, interrupted>>

\* Faulty variant: the interrupt is handled as any other exception.
InterruptAsError ==
  /\ pc # "stopped"
  /\ pc' = "stopped"
  /\ exit_code' = Some(1)
  /\ interrupted' = TRUE
  /\ UNCHANGED <<interval, validators, data, changes, payload, post_success,
                 get_response, post_response, tick_log, tick_start, last_ok, prev>>

\* Lines 181-182: KeyboardInterrupt is no Exception, so no handler of
\* fetch_validators or post_to_target catches it; run() returns and the
\* process ends with status 0.
Interrupt ==
  /\ pc # "stopped"
  /\ pc' = "stopped"
  /\ exit_code' = Some(0)
  /\ interrupted' = TRUE
  /\ UNCHANGED <<interval, validators, data, changes, payload, post_success,
                 get_response, post_response, tick_log, tick_start, last_ok, prev>>

Next ==
  \/ FetchFailed
  \/ FetchOk
  \/ DetectChanges
  \/ FirstFetch
  \/ PostToTarget
  \/ InterruptSwallowed
  \/ Commit
  \/ Sleep
  \/ SleepRaises
  \/ Interrupt

Spec == Init /\ [][Next]_vars

TypeOK ==
  /\ pc \in {"tick", "fetched", "post", "posted", "sleep", "stopped"}
  /\ validators \in {None} \cup {Some(d) : d \in Feed}
  /\ data \in {None} \cup {Some(d) : d \in Feed}

(***************************************************************************)
(* The two pure functions called directly, on every pair of datasets       *)
(***************************************************************************)
InitPure ==
  /\ pc = "call"
  /\ interval = DefaultInterval
  /\ validators \in {Some(d) : d \in Datasets}
  /\ data \in {Some(d) : d \in Datasets}
  /\ changes = NoChanges
  /\ payload = None
  /\ post_success = FALSE
  /\ get_response = None
  /\ post_response = None
  /\ exit_code = None
  /\ tick_log = <<>>
  /\ tick_start = None
  /\ last_ok = None
  /\ prev = NoTick
  /\ interrupted = FALSE

\* detect_changes(old_data, new_data) with self.validators and data.
CallDetect ==
  /\ pc = "call"
  /\ changes' = detect_changes(validators.v, data.v)
  /\ pc' = "detected"
  /\ UNCHANGED <<interval, validators, data, payload, post_success, get_response,
                 post_response, exit_code, tick_log, tick_start, last_ok, prev, interrupted>>

\* transform_data_format(data).
CallTransform ==
  /\ pc = "call"
  /\ payload' = Some(transform_data_format(data.v))
  /\ pc' = "transformed"
  /\ UNCHANGED <<interval, validators, data, changes, post_success, get_response,
                 post_response, exit_code, tick_log, tick_start, last_ok, prev, interrupted>>

NextPure == CallDetect \/ CallTransform

SpecPure == InitPure /\ [][NextPure]_vars

(***************************************************************************)
(* Vocabulary of the properties, stated apart from the operators above     *)
(***************************************************************************)
\* A POST succeeded: an answer with status 200, 201 or 202.
PostSucceeded(resp) == ~resp.raised /\ resp.status \in {200, 201, 202}
\* A GET failed: no answer, another status than 200, or an undecodable body.
GetFailed(resp) == resp.raised \/ resp.status # 200 \/ resp.json = None

Posted == payload # None
TickDone == pc = "sleep"
Steady == tick_start # None
Detected == \E i \in 1..Len(tick_log) : tick_log[i] = "DETECT"
Committed == \E i \in 1..Len(tick_log) : tick_log[i] = "COMMIT"
EmptyChangeSet(chg) ==
  ~chg.raised /\ chg.added = {} /\ chg.removed = {} /\ chg.updated = {}

\* C1: at every point of the loop outside the window between a successful
\* POST and its commit, the snapshot is absent (no POST has succeeded yet) or
\* is the dataset of the latest tick whose POST succeeded; inside that window
\* (or stopped inside it) it is still the snapshot the tick began with.
C1_SnapshotIsLastForwarded ==
  /\ pc \in {"tick", "fetched", "post", "sleep"} => validators = last_ok
  /\ validators # last_ok =>
       /\ pc \in {"posted", "stopped"}
       /\ PostSucceeded(post_response.v)
       /\ last_ok = data
       /\ validators = tick_start

C1_Witness ==
  /\ TickDone /\ Steady /\ Posted
  /\ ~PostSucceeded(post_response.v)
  /\ validators # data
  /\ validators = last_ok

\* C2: a tick commits the fetched dataset iff its POST returned 200, 201 or
\* 202; for a transport failure or any other status post_to_target returns
\* False and the snapshot, or its absence, is as the tick found it.
C2_CommitIffAccepted ==
  /\ pc = "posted" => post_success = PostSucceeded(post_response.v)
  /\ TickDone /\ Posted =>
       IF PostSucceeded(post_response.v)
         THEN post_success /\ Committed /\ validators = data
         ELSE ~post_success /\ ~Committed /\ validators = tick_start
                /\ validators # data
  /\ TickDone /\ ~Posted => ~Committed /\ validators = tick_start

C2_Witness ==
  /\ TickDone /\ Posted
  /\ ~post_response.v.raised /\ post_response.v.status = 204
  /\ validators = tick_start

\* C3: when the previous tick, in STEADY, detected a non-empty change set and
\* its POST failed, a tick that fetches the same dataset reports the same
\* change set and POSTs the same payload.
C3_RetryAfterFailedPost ==
  ( /\ TickDone
    /\ prev.steady /\ ~EmptyChangeSet(prev.changes) /\ ~prev.changes.raised
    /\ prev.posted /\ ~prev.post_success
    /\ data # None /\ data = prev.fetched )
  => /\ Detected
     /\ changes = prev.changes
     /\ Posted
     /\ payload = prev.payload

C3_Witness ==
  /\ TickDone
  /\ prev.steady /\ prev.posted /\ ~prev.post_success
  /\ prev.changes.updated # {}
  /\ data = prev.fetched
  /\ Posted /\ payload = prev.payload /\ changes = prev.changes
  /\ ~post_success

\* C4: a tick whose GET failed runs no change detection, issues no POST,
\* leaves the snapshot as it was and is at the sleep (or was stopped there).
C4_FetchFailureSkipsTick ==
  (get_response # None /\ GetFailed(get_response.v))
  => /\ pc \in {"sleep", "stopped"}
     /\ tick_log = <<"GET">>
     /\ data = None
     /\ ~Posted
     /\ validators = tick_start

C4_Witness ==
  /\ TickDone /\ Steady
  /\ ~get_response.v.raised /\ get_response.v.status = 204
  /\ get_response.v.json # None
  /\ validators = tick_start

\* C5: a tick that starts without a snapshot and whose fetch succeeds POSTs
\* without running the change detector, whatever the dataset; the snapshot
\* then is the fetched dataset if the POST succeeded and still absent if not.
C5_FirstFetchPostsUnconditionally ==
  /\ (pc \in {"post", "posted", "sleep"} /\ ~Steady /\ data # None) => ~Detected
  /\ (TickDone /\ ~Steady /\ data # None)
     => /\ Posted
        /\ IF PostSucceeded(post_response.v)
             THEN validators = data
             ELSE validators = None

C5_Witness ==
  /\ TickDone /\ ~Steady
  /\ prev.posted /\ ~prev.post_success /\ ~prev.steady
  /\ data = Some(<<>>)
  /\ validators = Some(<<>>)

\* C6: in STEADY a tick whose change set is empty issues no POST and leaves
\* the snapshot unchanged; so a tick that fetches the stored snapshot again
\* issues no POST.
C6_NoChangeNoPost ==
  /\ (TickDone /\ Steady /\ Detected /\ EmptyChangeSet(changes))
     => ~Posted /\ validators = tick_start
  /\ (TickDone /\ Steady /\ data = tick_start)
     => ~Posted /\ validators = tick_start

C6_Witness ==
  /\ TickDone
  /\ tick_start = Some(<<>>)
  /\ data = Some(<<>>)
  /\ Detected /\ EmptyChangeSet(changes)
  /\ ~Posted

\* A record that carries entry.message and entry.signature.
WellFormed(item) ==
  /\ item.t = "obj"
  /\ "entry" \in Keys(item)
  /\ Value(item, "entry").t = "obj"
  /\ {"message", "signature"} \subseteq Keys(Value(item, "entry"))

\* An element on which the reshaping raises: the element, or the entry of the
\* record, is null, which supports no membership test (or the element is the
\* string "entry", which supports no subscript by a key).
Unreshapable(item) ==
  \/ item.t = "null"
  \/ item.t = "str" /\ item.s = "entry"
  \/ item.t = "obj" /\ "entry" \in Keys(item) /\ Value(item, "entry").t = "null"

\* out holds, in order, one record for each well-formed record of d, with
\* exactly the fields message and signature, copied from the record's entry.
IsForwardOf(out, d) ==
  LET sel == SelectSeq(d, WellFormed)
  IN  /\ Len(out) = Len(sel)
      /\ Len(out) <= Len(d)
      /\ \A i \in 1..Len(sel) :
           /\ out[i].t = "obj"
           /\ Len(out[i].kv) = 2
           /\ Keys(out[i]) = {"message", "signature"}
           /\ Value(out[i], "message") = Value(Value(sel[i], "entry"), "message")
           /\ Value(out[i], "signature") = Value(Value(sel[i], "entry"), "signature")

\* C7: the body of every POST is the transform of the whole dataset fetched
\* in the tick (one forward record for each of its N well-formed records, the
\* unchanged ones included), and after a successful POST the snapshot is the
\* whole fetched dataset.
C7_PostCarriesFullDataset ==
  /\ Posted =>
       /\ data # None
       /\ IF \E i \in 1..Len(data.v) : Unreshapable(data.v[i])
            THEN payload.v = data.v
            ELSE IsForwardOf(payload.v, data.v)
       /\ (\A i \in 1..Len(data.v) : WellFormed(data.v[i]))
            => Len(payload.v) = Len(data.v)
  /\ (TickDone /\ Posted /\ PostSucceeded(post_response.v)) => validators = data

C7_Witness ==
  /\ TickDone /\ Steady /\ Posted
  /\ Cardinality(changes.updated) = 1
  /\ changes.added = {} /\ changes.removed = {}
  /\ Len(data.v) = 2
  /\ Len(payload.v) = 2
  /\ post_success
  /\ validators = data

\* A record that carries entry.message.pubkey, and that pubkey.
HasPubkey(item) ==
  /\ item.t = "obj" /\ "entry" \in Keys(item)
  /\ Value(item, "entry").t = "obj" /\ "message" \in Keys(Value(item, "entry"))
  /\ Value(Value(item, "entry"), "message").t = "obj"
  /\ "pubkey" \in Keys(Value(Value(item, "entry"), "message"))
PubkeyOf(item) == Value(Value(Value(item, "entry"), "message"), "pubkey")
PubkeysOf(S) == {PubkeyOf(item) : item \in S}
Records(d) == {d[i] : i \in 1..Len(d)}

UniquePubkeys(d) ==
  /\ \A i \in 1..Len(d) : HasPubkey(d[i])
  /\ \A i, j \in 1..Len(d) : PubkeyOf(d[i]) = PubkeyOf(d[j]) => i = j

\* Two JSON values with the same content: equal strings, or objects with the
\* same keys and the same content under each key, whatever the key order.
RECURSIVE SameContent(_, _)
SameContent(a, b) ==
  /\ a.t = b.t
  /\ a.t = "str" => a.s = b.s
  /\ a.t = "obj" =>
       /\ Keys(a) = Keys(b)
       /\ \A k \in Keys(a) : SameContent(Value(a, k), Value(b, k))

\* C8: for old and new with unique pubkeys, detect_changes returns as added
\* the records of new whose pubkey is not in old, as removed the records of
\* old whose pubkey is not in new, as updated the records of new whose pubkey
\* is in both and whose content differs; the three are disjoint by pubkey and,
\* with the unchanged pubkeys, cover the pubkeys of old and new.
C8_DetectChangesPartition ==
  (pc = "detected" /\ UniquePubkeys(validators.v) /\ UniquePubkeys(data.v))
  => LET old == Records(validators.v)
         new == Records(data.v)
         unchanged == {PubkeyOf(n) : n \in {m \in new : \E o \in old :
                          PubkeyOf(o) = PubkeyOf(m) /\ SameContent(o, m)}}
         a == PubkeysOf(changes.added)
         r == PubkeysOf(changes.removed)
         u == PubkeysOf(changes.updated)
     IN  /\ ~changes.raised
         /\ changes.added = {n \in new : PubkeyOf(n) \notin PubkeysOf(old)}
         /\ changes.removed = {o \in old : PubkeyOf(o) \notin PubkeysOf(new)}
         /\ changes.updated = {n \in new : \E o \in old :
                                 PubkeyOf(o) = PubkeyOf(n) /\ ~SameContent(o, n)}
         /\ a \cap r = {} /\ a \cap u = {} /\ r \cap u = {}
         /\ u \cap unchanged = {}
         /\ a \cup r \cup u \cup unchanged = PubkeysOf(old) \cup PubkeysOf(new)

C8_Witness ==
  /\ pc = "detected"
  /\ validators = Some(<<A1, B1>>)
  /\ data = Some(<<A2, NoSig>>)
  /\ changes.added = {NoSig}
  /\ changes.removed = {B1}
  /\ changes.updated = {A2}

\* C9: for every snapshot d, detect_changes(d, d) returns empty added,
\* removed and updated, and leaves the stored snapshot and the fetched
\* dataset as they were.
C9_SameDatasetEmptyChangeSet ==
  (Steady /\ Detected /\ data = tick_start)
  => EmptyChangeSet(changes) /\ validators = tick_start

\* C10 as stated: for every sequence of records (objects), the result holds in
\* input order one record with exactly message and signature for each record
\* that has entry.message and entry.signature, and nothing else.
C10_TransformDropsExactlyMalformed ==
  (pc = "transformed" /\ \A i \in 1..Len(data.v) : data.v[i].t = "obj")
  => IsForwardOf(payload.v, data.v)

\* C10 amended: that holds for every sequence on which the reshaping does not
\* raise; a sequence with an element on which it raises is returned unchanged.
C10_TransformUnlessRaised ==
  pc = "transformed"
  => IF \E i \in 1..Len(data.v) : Unreshapable(data.v[i])
       THEN payload.v = data.v
       ELSE IsForwardOf(payload.v, data.v)

C10_Witness ==
  /\ pc = "transformed"
  /\ data = Some(<<NoEntry, A1>>)
  /\ Len(payload.v) = 1
  /\ Value(payload.v[1], "signature") = Str("sigA")

\* A record that is an object and lacks entry, entry.message or
\* entry.signature.
LacksField(item) ==
  /\ item.t = "obj"
  /\ \/ "entry" \notin Keys(item)
     \/ /\ Value(item, "entry").t = "obj"
        /\ ~({"message", "signature"} \subseteq Keys(Value(item, "entry")))

MalformedAmongValid(d) ==
  /\ \E i \in 1..Len(d) : LacksField(d[i])
  /\ \E i \in 1..Len(d) : WellFormed(d[i])
  /\ \A i \in 1..Len(d) : LacksField(d[i]) \/ WellFormed(d[i])

\* The two datasets do not hold the same records.
OtherRecords(old, new) == Records(old) # Records(new)

\* C11: a tick, without a snapshot or with one from which the fetch differs,
\* whose fetched dataset holds a record lacking entry, entry.message or
\* entry.signature beside valid records POSTs the forward records of the
\* valid ones.
C11_MalformedRecordNotFatal ==
  ( /\ TickDone /\ data # None
    /\ MalformedAmongValid(data.v)
    /\ Steady => OtherRecords(tick_start.v, data.v) )
  => Posted /\ IsForwardOf(payload.v, data.v)

C13_ExpectedFailuresKeepLoopRunning ==
  /\ [][ /\ (pc = "tick" /\ get_response' # None /\ GetFailed(get_response'.v))
              => pc' = "sleep" /\ exit_code' = exit_code
         /\ (pc = "fetched" /\ changes'.raised)
              => pc' = "sleep" /\ exit_code' = exit_code
         /\ (pc = "post" /\ post_response' # None)
              => pc' = "posted" /\ exit_code' = exit_code
         /\ (pc = "posted" /\ pc' # "stopped") => pc' = "sleep"
         /\ (pc # "stopped" /\ pc' = "stopped")
              => \/ exit_code' = Some(0)
                 \/ pc = "sleep" /\ interval < 0 /\ exit_code' = Some(1) ]_vars
  /\ [](pc = "sleep" /\ interval >= 0 => ENABLED Sleep)
  /\ [](pc = "stopped" <=> exit_code # None)

C13_Witness ==
  /\ pc = "tick"
  /\ exit_code = None
  /\ prev.fetched = Some(<<A1, NullEntry>>)
  /\ prev.posted /\ ~prev.post_success
  /\ prev.payload = prev.fetched

Transformed == \E i \in 1..Len(tick_log) : tick_log[i] = "TRANSFORM"
Requested == \E i \in 1..Len(tick_log) : tick_log[i] = "POST"

\* C14: a tick whose transformer runs on a dataset with an element on which
\* the reshaping raises (a null element, a record whose entry is null) still
\* issues its POST, and the body is the fetched dataset as it is.
C14_TransformFailurePostsOriginal ==
  (Transformed /\ \E i \in 1..Len(data.v) : Unreshapable(data.v[i]))
  => /\ Requested /\ Posted
     /\ post_response # None
     /\ payload = data

C14_Witness ==
  /\ TickDone
  /\ data = Some(<<A1, Null>>)
  /\ Posted /\ payload = data
  /\ post_success /\ validators = data

\* C15, for the interrupts that reach run(): an interrupt can be raised at
\* every point of a tick and of the sleep; one that reaches run() stops the
\* loop with exit status 0 and changes nothing else, so the snapshot at
\* STOPPED is the one the interrupted tick began with or the whole dataset of
\* a tick whose POST succeeded.
C15_InterruptStopsCleanly ==
  /\ [](pc # "stopped" => ENABLED Interrupt)
  /\ [][(pc # "stopped" /\ pc' = "stopped" /\ ~(pc = "sleep" /\ interval < 0))
          => /\ exit_code' = Some(0)
             /\ validators' = validators]_vars
  /\ [](exit_code = Some(0) =>
          /\ pc = "stopped"
          /\ \/ validators = last_ok
             \/ tick_log # <<>> /\ validators = tick_start)

C15_Witness ==
  /\ pc = "stopped" /\ exit_code = Some(0)
  /\ Steady /\ Posted /\ post_success
  /\ ~Committed
  /\ validators = tick_start
  /\ validators # data

\* C15: once a user interrupt has been raised, at whatever point of a tick or
\* of the sleep, the loop is STOPPED with exit status 0 and the snapshot is
\* the one the interrupted tick began with or the dataset of a tick whose
\* POST succeeded.
C15_EveryInterruptStops ==
  interrupted =>
    /\ pc = "stopped" /\ exit_code = Some(0)
    /\ \/ validators = last_ok
       \/ tick_log # <<>> /\ validators = tick_start


\* Two datasets that differ at most in the order in which their objects list
\* their keys: the same length and, position by position, the same content.
KeyOrderOnly(old, new) ==
  /\ Len(old) = Len(new)
  /\ \A i \in 1..Len(old) : SameContent(old[i], new[i])

\* C16: in a STEADY tick whose change set was computed, no record reported as
\* updated has the same content as the snapshot's record of the same pubkey
\* (whatever the order of the keys at any nesting level); and a fetch that
\* differs from the snapshot at most in key order is never POSTed.
C16_KeyOrderIsNotAChange ==
  /\ (Detected /\ ~changes.raised) =>
       \A new \in changes.updated :
         \A i \in 1..Len(tick_start.v) :
           (Pubkey(tick_start.v[i]) = Pubkey(new)
              /\ \A j \in 1..Len(tick_start.v) :
                   Pubkey(tick_start.v[j]) = Pubkey(new) => j <= i)
             => ~SameContent(tick_start.v[i], new)
  /\ (Steady /\ data # None /\ KeyOrderOnly(tick_start.v, data.v)) =>
       /\ pc # "post" /\ ~Posted
       /\ Detected => (changes.raised \/ EmptyChangeSet(changes))
C16_Witness ==
  /\ TickDone /\ Steady /\ Detected /\ ~Posted
  /\ EmptyChangeSet(changes)
  /\ data # tick_start
  /\ KeyOrderOnly(tick_start.v, data.v)
  /\ \E i \in 1..Len(data.v) : data.v[i] = A1r /\ tick_start.v[i] = A1


\* s is an initial part of t.
IsPrefix(s, t) == Len(s) <= Len(t) /\ SubSeq(t, 1, Len(s)) = s
\* The steps of a whole tick, in STEADY and in the first run.
TickOrder ==
  IF Steady THEN <<"GET", "DETECT", "TRANSFORM", "POST", "COMMIT">>
  ELSE <<"GET", "TRANSFORM", "POST", "COMMIT">>
Issued(step) == \E i \in 1..Len(tick_log) : tick_log[i] = step

\* C17: the steps of a tick are an initial part of GET, (in STEADY) DETECT,
\* TRANSFORM, POST, COMMIT, each at most once; a POST is issued only after a
\* GET answered 200; the sleep begins only when the tick has fetched and, if
\* it POSTed, has the POST's answer and has committed a successful one; and a
\* GET is issued only by a tick that starts from the end of a sleep (or from
\* the entry of run()) with no step of an earlier tick pending.
C17_TicksAreSequential ==
  /\ [](IsPrefix(tick_log, TickOrder))
  /\ [](Issued("POST") =>
          /\ get_response # None
          /\ ~get_response.v.raised /\ get_response.v.status = 200
          /\ Posted)
  /\ [](pc = "tick" => tick_log = <<>> /\ ~Posted /\ post_response = None)
  /\ [](pc = "sleep" =>
          /\ Issued("GET")
          /\ Posted => (Issued("POST") /\ post_response # None)
          /\ post_success => Issued("COMMIT"))
  /\ [][pc' = "tick" => pc = "sleep"]_vars
  /\ [][(Len(tick_log') = 1 /\ tick_log # tick_log')
          => (pc = "tick" /\ tick_log = <<>> /\ tick_log' = <<"GET">>)]_vars
C17_Witness ==
  /\ TickDone /\ Steady /\ prev.posted
  /\ tick_log = <<"GET", "DETECT", "TRANSFORM", "POST", "COMMIT">>


\* The two datasets differ in their set of records or in a record's content:
\* one of them holds a record whose content no record of the other has.
DiffersInRecords(old, new) ==
  \/ \E r \in Records(old) : \A q \in Records(new) : ~SameContent(r, q)
  \/ \E r \in Records(new) : \A q \in Records(old) : ~SameContent(r, q)

\* C18: every STEADY tick whose GET returned 200 with a dataset that differs
\* from the stored snapshot in its set of records or in a record's content,
\* well-formed or not, attempts a POST.
C18_EveryDifferenceIsPosted ==
  (TickDone /\ Steady /\ data # None /\ DiffersInRecords(tick_start.v, data.v))
  => Posted


\* C19: a stored snapshot never becomes absent again, whatever fetches and
\* POSTs fail; a successful POST's commit leaves a snapshot stored, be it the
\* empty dataset; and a tick that begins with a snapshot POSTs only through
\* change detection, never through the first-run path.
C19_SnapshotStaysPresent ==
  /\ [][validators # None => validators' # None]_vars
  /\ [](Committed => validators # None)
  /\ []((Steady /\ (pc = "post" \/ Posted)) =>
          (Detected /\ HasChanges(changes)))
  /\ [](Steady => validators # None)
C19_Witness ==
  /\ TickDone /\ validators = Some(<<>>) /\ tick_start = Some(<<>>)
  /\ prev.steady /\ prev.posted /\ ~prev.post_success
  /\ data = Some(<<>>) /\ Detected /\ ~Posted


\* The fetched dataset holds the records of the snapshot, each as often, in
\* another sequence order.
Count(d, r) == Cardinality({i \in 1..Len(d) : d[i] = r})
IsPermutation(old, new) ==
  /\ Len(old) = Len(new)
  /\ \A r \in Records(old) \cup Records(new) : Count(old, r) = Count(new, r)
  /\ old # new

\* C20 as stated: in STEADY, a fetched dataset that is a permutation of the
\* stored snapshot yields an empty change set, no POST is issued and the
\* stored snapshot keeps its old order.
C20_PermutationIsNoChange ==
  (TickDone /\ Steady /\ data # None /\ IsPermutation(tick_start.v, data.v))
  => /\ Detected /\ EmptyChangeSet(changes)
     /\ ~Posted
     /\ validators = tick_start

\* C20 amended: a permutation of the snapshot never reports a record as added
\* or removed; when the pubkeys of its records are pairwise distinct the
\* change set is empty, no POST is issued and the snapshot keeps its order;
\* when detection raises on a record without pubkey no change set is
\* produced, and again nothing is POSTed or stored; a POST is issued only for
\* a dataset in which two records share a pubkey, whose last record per
\* pubkey is the one compared and reported as updated.
C20_PermutationOfDistinctPubkeys ==
  (TickDone /\ Steady /\ data # None /\ IsPermutation(tick_start.v, data.v))
  => /\ Detected
     /\ changes.added = {} /\ changes.removed = {}
     /\ UniquePubkeys(data.v) =>
          (EmptyChangeSet(changes) /\ ~Posted /\ validators = tick_start)
     /\ changes.raised => (~Posted /\ validators = tick_start)
     /\ Posted =>
          /\ changes.updated # {}
          /\ \E i, j \in 1..Len(data.v) :
               i # j /\ Pubkey(data.v[i]) = Pubkey(data.v[j])
C20_Witness ==
  /\ TickDone /\ Steady /\ Detected
  /\ tick_start = Some(<<A1, B1>>) /\ data = Some(<<B1, A1>>)
  /\ EmptyChangeSet(changes) /\ ~Posted
  /\ validators = Some(<<A1, B1>>)

====
